---- MODULE Spec2Model ----
(***************************************************************************)
(* A model of ftpclient.h, the single-header FTP client built on libcurl.  *)
(*                                                                         *)
(* The state is one client handle (ftp_client_t: its configuration, its    *)
(* last_error buffer and the option set of its CURL easy handle), the      *)
(* local files the transfers open, and a record of the last API call with  *)
(* what it was given and what it returned.  Every API function is one      *)
(* action that models the whole function body.  libcurl is the             *)
(* environment: curl_easy_perform is a function of the options in force on *)
(* the handle and of what the network and the server do during the call    *)
(* (the "scenario"), with a nondeterministic choice where libcurl versions *)
(* differ.                                                                 *)
(*                                                                         *)
(* C strings are sequences of one-character strings ending in NUL; the     *)
(* NULL pointer is the empty sequence (no storage at all).                 *)
(***************************************************************************)
EXTENDS Integers, Sequences, FiniteSets, TLC

VARIABLES
    pc,          \* "running" | "crashed" | "destroyed": the life of the client
    config,      \* client->config
    last_error,  \* client->last_error, as [fmt, arg]
    curl,        \* the options set on client->curl
    localFiles,  \* the local paths that exist as files
    call,        \* the last API call: its arguments and its results
    ncalls,      \* number of API calls made on the client so far
    invalidated  \* history: an operation lost the connection (it could not
                 \* connect, or timed out) and no connect has succeeded since

vars == <<pc, config, last_error, curl, localFiles, call, ncalls, invalidated>>

(***************************************************************************)
(* Bounds of the model.                                                    *)
(***************************************************************************)
\* At most this many API calls are made on the client after the initial state.
MaxCalls == 2

(***************************************************************************)
(* Program constants.                                                      *)
(***************************************************************************)
FTP_MAX_URL_LENGTH == 2048
LAST_ERROR_SIZE == 512

FTP_OK == 0
FTP_ERROR_INIT == -1
FTP_ERROR_CONNECTION == -2
FTP_ERROR_AUTH == -3
FTP_ERROR_TRANSFER == -4
FTP_ERROR_FILE_NOT_FOUND == -5
FTP_ERROR_MEMORY == -6
FTP_ERROR_INVALID_PARAM == -7
FTP_ERROR_CURL == -8
FTP_ERROR_FILE_IO == -9
FTP_ERROR_TIMEOUT == -10

FTP_MODE_PASSIVE == 0
FTP_MODE_ACTIVE == 1

FTP_SSL_NONE == 0
FTP_SSL_TRY == 1
FTP_SSL_CONTROL == 2
FTP_SSL_ALL == 3

(***************************************************************************)
(* C strings.                                                              *)
(***************************************************************************)
NUL == "NUL"
NULL == <<>>

\* The C string holding the characters cs.
Str(cs) == cs \o <<NUL>>
\* The characters of the C string s, without its terminator.
Chars(s) == SubSeq(s, 1, Len(s) - 1)
\* strlen: every string of the model is terminated and holds no inner NUL.
strlen(s) == Len(s) - 1
\* n copies of the character c.
Rep(c, n) == [i \in 1..n |-> c]
Take(cs, n) == IF Len(cs) <= n THEN cs ELSE SubSeq(cs, 1, n)
\* snprintf(buf, size, ...) of the formatted characters cs: at most size-1
\* characters are stored, then the terminator.
Snprintf(size, cs) == Str(Take(cs, size - 1))

Digit(d) == CASE d = 0 -> "0" [] d = 1 -> "1" [] d = 2 -> "2" [] d = 3 -> "3"
              [] d = 4 -> "4" [] d = 5 -> "5" [] d = 6 -> "6" [] d = 7 -> "7"
              [] d = 8 -> "8" [] d = 9 -> "9"
RECURSIVE UDigits(_)
UDigits(n) == IF n < 10 THEN <<Digit(n)>> ELSE UDigits(n \div 10) \o <<Digit(n % 10)>>
\* printf's %d.
FmtD(n) == IF n < 0 THEN <<"-">> \o UDigits(-n) ELSE UDigits(n)

(***************************************************************************)
(* The strings the model's callers pass.                                   *)
(***************************************************************************)
ShortHost == Str(<<"h">>)
\* A host name with which even "ftp://host:port/" does not fit the URL buffer.
LongHost == Str(Rep("h", FTP_MAX_URL_LENGTH - 10))
Hosts == {NULL, Str(<<>>), ShortHost, LongHost}
Ports == {0, 990, 65536}

AbsPath == Str(<<"/", "a">>)
RelPath == Str(<<"b">>)
\* A remote path that does not fit a URL together with any host.
LongPath == Str(<<"/">> \o Rep("p", FTP_MAX_URL_LENGTH))
RemotePaths == {NULL, AbsPath, RelPath, LongPath}
\* A path, and a command line, that go on after a line end.
InjectPath == Str(<<"/", "a", "\r", "\n", "Q", "U", "I", "T">>)
InjectCommand == Str(<<"N", "O", "O", "P", "\r", "\n", "Q", "U", "I", "T">>)

\* The local paths: a file that exists from the start, a path that can be
\* created, and one in a directory that is missing.
LocalSrc == Str(<<"s">>)
LocalGood == Str(<<"l">>)
LocalBad == Str(<<"x", "/", "l">>)
\* fopen(path, "wb") succeeds for the paths whose directory exists.
Creatable(path) == path = LocalGood

UserU == Str(<<"u">>)
PassP == Str(<<"p">>)

\* The progress callbacks a caller registers: none, one that always returns
\* 0 (continue), one that returns non-zero (abort) when called.
CB_NONE == "cb_null"
CB_CONTINUE == "cb_continue"
CB_ABORT == "cb_abort"

UD_NULL == "ud_null"
UD_DATA == "ud_data"
ProgressArgs == {<<CB_NONE, UD_NULL>>, <<CB_CONTINUE, UD_DATA>>, <<CB_ABORT, UD_DATA>>}

(***************************************************************************)
(* The record of an API call.  ptrs are the pointer arguments after the   *)
(* client, ints the integer arguments; ret is the value returned (FTP_OK   *)
(* stands in for a void function).  scenario and res are what happened on  *)
(* the network and the CURLcode of curl_easy_perform when the engine was   *)
(* invoked (performs = 1), "none" otherwise.  wroteError tells whether the *)
(* call stored a message in last_error; deref whether it read through a    *)
(* NULL pointer; returned whether it returned at all (a call whose         *)
(* undefined behaviour ends the process does not).  sizeBefore/sizeAfter   *)
(* are the caller's int64_t that get_filesize is given, outBefore/outAfter *)
(* the caller's char * that list_dir and execute_command are given;        *)
(* created tells whether a download created its local file; quote is the   *)
(* command list handed to the engine and sent the commands the engine has  *)
(* sent to the server after the login.  invalidatedBefore is the value of  *)
(* invalidated when the call was made.                                     *)
(***************************************************************************)
\* What the caller's int64_t holds before a call of ftp_client_get_filesize.
OldSize == 7
\* What the caller's char * holds before list_dir or execute_command is called.
OldOut == Str(<<"o", "l", "d">>)
\* A non-NULL address of a caller's variable (char **, int64_t *).
Addr == Str(<<"&">>)

BaseCall(op, clientNull, ptrs, ints) ==
    [op |-> op, clientNull |-> clientNull, ptrs |-> ptrs, ints |-> ints,
     returned |-> TRUE, ret |-> FTP_OK,
     scenario |-> "none", res |-> "none", performs |-> 0,
     wroteError |-> FALSE, deref |-> FALSE,
     sizeBefore |-> OldSize, sizeAfter |-> OldSize,
     outBefore |-> OldOut, outAfter |-> OldOut,
     created |-> FALSE, quote |-> <<>>,
     sent |-> <<>>, invalidatedBefore |-> FALSE,
     fopened |-> 0, fclosed |-> 0,
     balloc |-> FALSE, bfreed |-> 0, bhanded |-> 0,
     nodes |-> <<>>, nodesFreed |-> <<>>, received |-> <<>>]

\* No call has returned that the caller has not dealt with yet.
Idle == BaseCall("idle", FALSE, <<>>, <<>>)
\* A call is made on a live client, by a caller that is not inside a call.
Callable == pc = "running" /\ call = Idle /\ ncalls < MaxCalls

\* The calls an action tries: each argument list with a client, and a NULL
\* client with arguments that are valid otherwise.
ClientAndArgs(args, valid) == {<<FALSE, a>> : a \in args} \cup {<<TRUE, valid>>}

(***************************************************************************)
(* last_error: what snprintf(client->last_error, 512, fmt, arg) stores.    *)
(* fmt is the format up to its "%s", arg the characters the "%s" produced, *)
(* cut to what fits the buffer after the format's own n characters.        *)
(***************************************************************************)
Msg(fmt, n, arg) == [fmt |-> fmt, arg |-> Take(arg, LAST_ERROR_SIZE - 1 - n)]
Msg0(fmt) == [fmt |-> fmt, arg |-> <<>>]
\* calloc leaves the buffer zeroed: the empty string.
NoMsg == Msg0("")

(***************************************************************************)
(* ftp_client_init_config and ftp_client_create.                           *)
(***************************************************************************)
ftp_client_init_config ==
    [host |-> NULL, port |-> 21,
     username |-> Str(<<"a","n","o","n","y","m","o","u","s">>),
     password |-> Str(<<"u","s","e","r","@","e","x","a","m","p","l","e",".","c","o","m">>),
     mode |-> FTP_MODE_PASSIVE, ssl_mode |-> FTP_SSL_NONE, verify_ssl |-> 1,
     timeout |-> 60, connect_timeout |-> 30, verbose |-> 0,
     progress_callback |-> CB_NONE, progress_user_data |-> UD_NULL]

(***************************************************************************)
(* The CURL easy handle: the options the wrapper sets, with libcurl's      *)
(* defaults, which curl_easy_init and curl_easy_reset establish.           *)
(***************************************************************************)
curl_easy_reset ==
    [url |-> NULL, username |-> NULL, password |-> NULL,
     timeout |-> 0, connecttimeout |-> 0, verbose |-> 0,
     ftpport |-> NULL, use_epsv |-> 1,
     use_ssl |-> FTP_SSL_NONE, ssl_verifypeer |-> 1, ssl_verifyhost |-> 2,
     xferinfofunction |-> FALSE, noprogress |-> 1,
     upload |-> 0, readdata |-> NULL, nobody |-> 0, filetime |-> 0, header |-> 0,
     quote |-> <<>>, writedata |-> "stdout"]

\* An operation that goes on with the handle as the last operation left it.
reset_handle_skipped(h) == h

\* curl_easy_reset(client->curl): whatever the options of the handle h were,
\* they are the defaults afterwards.
reset_handle(h) == curl_easy_reset

(***************************************************************************)
(* The configuration setters.                                              *)
(***************************************************************************)
\* A set_host that stores whatever port it is given.
PortAccepted_unchecked(port) == TRUE

\* The port test of ftp_client_set_host.
PortAccepted(port) == port > 0 /\ port <= 65535

\* ftp_client_set_host(client, host, port); strdupOk: strdup returned memory.
set_host_result(cfg, clientNull, host, port, strdupOk) ==
    IF clientNull \/ host = NULL
    THEN [cfg |-> cfg, ret |-> FTP_ERROR_INVALID_PARAM]
    ELSE IF ~strdupOk
    THEN [cfg |-> [cfg EXCEPT !.host = NULL], ret |-> FTP_ERROR_MEMORY]
    ELSE [cfg |-> [cfg EXCEPT !.host = host,
                              !.port = IF PortAccepted(port) THEN port ELSE @],
          ret |-> FTP_OK]

\* The calls of ftp_client_set_host: every host with every port, and a NULL
\* client, a NULL host and a failing strdup with valid arguments otherwise.
SetHostArgs ==
    {<<FALSE, ShortHost, port, TRUE>> : port \in Ports}
        \cup {<<FALSE, host, 990, TRUE>> : host \in Hosts \ {NULL}}
        \cup {<<TRUE, ShortHost, 990, TRUE>>, <<FALSE, NULL, 990, TRUE>>,
              <<FALSE, ShortHost, 990, FALSE>>}

ftp_client_set_host ==
    /\ Callable
    /\ \E a \in SetHostArgs :
        LET clientNull == a[1]  host == a[2]  port == a[3]  strdupOk == a[4]
            r == set_host_result(config, clientNull, host, port, strdupOk) IN
        /\ config' = r.cfg
        /\ call' = [BaseCall("set_host", clientNull, <<host>>, <<port>>) EXCEPT !.ret = r.ret]
        /\ ncalls' = ncalls + 1
        /\ UNCHANGED <<pc, last_error, curl, localFiles, invalidated>>

\* ftp_client_set_credentials; ok1, ok2: the two strdup calls returned memory.
set_credentials_result(cfg, clientNull, username, password, ok1, ok2) ==
    IF clientNull \/ username = NULL \/ password = NULL
    THEN [cfg |-> cfg, ret |-> FTP_ERROR_INVALID_PARAM]
    ELSE IF ~ok1
    THEN [cfg |-> [cfg EXCEPT !.username = NULL], ret |-> FTP_ERROR_MEMORY]
    ELSE IF ~ok2
    THEN [cfg |-> [cfg EXCEPT !.username = NULL, !.password = NULL],
          ret |-> FTP_ERROR_MEMORY]
    ELSE [cfg |-> [cfg EXCEPT !.username = username, !.password = password],
          ret |-> FTP_OK]

SetCredentialsArgs ==
    {<<FALSE, UserU, PassP, TRUE, TRUE>>, <<TRUE, UserU, PassP, TRUE, TRUE>>,
     <<FALSE, NULL, PassP, TRUE, TRUE>>, <<FALSE, UserU, NULL, TRUE, TRUE>>,
     <<FALSE, UserU, PassP, FALSE, TRUE>>, <<FALSE, UserU, PassP, TRUE, FALSE>>}

ftp_client_set_credentials ==
    /\ Callable
    /\ \E a \in SetCredentialsArgs :
        LET clientNull == a[1]  username == a[2]  password == a[3]
            ok1 == a[4]  ok2 == a[5]
            r == set_credentials_result(config, clientNull, username, password, ok1, ok2) IN
        /\ config' = r.cfg
        /\ call' = [BaseCall("set_credentials", clientNull, <<username, password>>, <<>>)
                        EXCEPT !.ret = r.ret]
        /\ ncalls' = ncalls + 1
        /\ UNCHANGED <<pc, last_error, curl, localFiles, invalidated>>

ftp_client_set_mode ==
    /\ Callable
    /\ \E a \in ClientAndArgs({FTP_MODE_PASSIVE, FTP_MODE_ACTIVE}, FTP_MODE_ACTIVE) :
        LET clientNull == a[1]  mode == a[2] IN
        /\ config' = IF clientNull THEN config ELSE [config EXCEPT !.mode = mode]
        /\ call' = BaseCall("set_mode", clientNull, <<>>, <<mode>>)
        /\ ncalls' = ncalls + 1
        /\ UNCHANGED <<pc, last_error, curl, localFiles, invalidated>>

\* Every policy, with and without verification of the certificate.
SetSslArgs ==
    {<<FTP_SSL_NONE, 0>>, <<FTP_SSL_TRY, 1>>, <<FTP_SSL_CONTROL, 0>>,
     <<FTP_SSL_CONTROL, 1>>, <<FTP_SSL_ALL, 1>>}

ftp_client_set_ssl ==
    /\ Callable
    /\ \E a \in ClientAndArgs(SetSslArgs, <<FTP_SSL_ALL, 1>>) :
        LET clientNull == a[1]  ssl_mode == a[2][1]  verify == a[2][2] IN
        /\ config' = IF clientNull THEN config
                     ELSE [config EXCEPT !.ssl_mode = ssl_mode, !.verify_ssl = verify]
        /\ call' = BaseCall("set_ssl", clientNull, <<>>, <<ssl_mode, verify>>)
        /\ ncalls' = ncalls + 1
        /\ UNCHANGED <<pc, last_error, curl, localFiles, invalidated>>

\* A test that lets zero through.
TimeoutApplied_from_zero(t) == t >= 0

\* The test ftp_client_set_timeout applies to each of its two arguments.
TimeoutApplied(t) == t > 0

set_timeout_result(cfg, clientNull, timeout, connect_timeout) ==
    IF clientNull THEN cfg
    ELSE [cfg EXCEPT
            !.timeout = IF TimeoutApplied(timeout) THEN timeout ELSE @,
            !.connect_timeout = IF TimeoutApplied(connect_timeout)
                                THEN connect_timeout ELSE @]

\* Each argument positive, zero and negative, with the other one positive.
TimeoutArgs == {<<120, 15>>, <<0, 15>>, <<-1, 15>>, <<120, 0>>, <<120, -1>>, <<0, 0>>}

ftp_client_set_timeout ==
    /\ Callable
    /\ \E a \in ClientAndArgs(TimeoutArgs, <<120, 15>>) :
        LET clientNull == a[1]  timeout == a[2][1]  connect_timeout == a[2][2] IN
        /\ config' = set_timeout_result(config, clientNull, timeout, connect_timeout)
        /\ call' = BaseCall("set_timeout", clientNull, <<>>, <<timeout, connect_timeout>>)
        /\ ncalls' = ncalls + 1
        /\ UNCHANGED <<pc, last_error, curl, localFiles, invalidated>>

ftp_client_set_verbose ==
    /\ Callable
    /\ \E a \in ClientAndArgs({0, 1}, 1) :
        LET clientNull == a[1]  verbose == a[2] IN
        /\ config' = IF clientNull THEN config ELSE [config EXCEPT !.verbose = verbose]
        /\ call' = BaseCall("set_verbose", clientNull, <<>>, <<verbose>>)
        /\ ncalls' = ncalls + 1
        /\ UNCHANGED <<pc, last_error, curl, localFiles, invalidated>>

ftp_client_set_progress_callback ==
    /\ Callable
    /\ \E ca \in ClientAndArgs(ProgressArgs, <<CB_CONTINUE, UD_DATA>>) :
        LET clientNull == ca[1]  a == ca[2] IN
        /\ config' = IF clientNull THEN config
                     ELSE [config EXCEPT !.progress_callback = a[1],
                                         !.progress_user_data = a[2]]
        /\ call' = BaseCall("set_progress_callback", clientNull, <<>>, <<>>)
        /\ ncalls' = ncalls + 1
        /\ UNCHANGED <<pc, last_error, curl, localFiles, invalidated>>

(***************************************************************************)
(* ftp_memory_buffer_t and write_memory_callback.                          *)
(* data is NULL or the C string of the size bytes received so far.         *)
(***************************************************************************)
FTP_BUFFER_SIZE == 8192

EmptyBuffer == [data |-> NULL, size |-> 0, capacity |-> 0]
\* if (buffer.data) free(buffer.data): the number of buffers it frees.
FreeIfData(mem) == IF mem.data # NULL THEN 1 ELSE 0

\* A growth without the loop: the first candidate capacity is taken.
GrowTo_once(cap, need) == cap

RECURSIVE GrowTo(_, _)
GrowTo(cap, need) == IF cap < need THEN GrowTo(cap * 2, need) ELSE cap

\* One call of write_memory_callback with the bytes `contents`; reallocOk:
\* realloc returned memory.  Gives the buffer afterwards and the value returned.
write_memory_callback(mem, contents, reallocOk) ==
    LET realsize == Len(contents)
        grow == mem.size + realsize + 1 > mem.capacity
        new_capacity == GrowTo(IF mem.capacity = 0 THEN FTP_BUFFER_SIZE
                               ELSE mem.capacity * 2,
                               mem.size + realsize + 1)
        old == IF mem.data = NULL THEN <<>> ELSE Take(mem.data, mem.size)
    IN  IF grow /\ ~reallocOk
        THEN [mem |-> mem, ret |-> 0]
        ELSE [mem |-> [data |-> Str(old \o contents),
                       size |-> mem.size + realsize,
                       capacity |-> IF grow THEN new_capacity ELSE mem.capacity],
              ret |-> realsize]

\* The engine hands the chunks to the callback one by one and stops at the
\* first call that does not return the chunk's length.
RECURSIVE Deliver(_, _, _)
Deliver(mem, chunks, reallocOk) ==
    IF chunks = <<>> THEN [mem |-> mem, ok |-> TRUE]
    ELSE LET r == write_memory_callback(mem, Head(chunks), reallocOk) IN
         IF r.ret # Len(Head(chunks)) THEN [mem |-> r.mem, ok |-> FALSE]
         ELSE Deliver(r.mem, Tail(chunks), reallocOk)

(***************************************************************************)
(* progress_callback_wrapper: the value the registered callback returns,   *)
(* 0 when none is registered.                                              *)
(***************************************************************************)
\* A wrapper that calls the callback and drops what it returns.
progress_callback_wrapper_ignoring(cfg) == 0

progress_callback_wrapper(cfg) ==
    IF cfg.progress_callback # CB_NONE
    THEN (IF cfg.progress_callback = CB_ABORT THEN 1 ELSE 0)
    ELSE 0

(***************************************************************************)
(* The transfer engine (libcurl), the environment of the wrapper.          *)
(* A scenario is what the network and the server do during one call of     *)
(* curl_easy_perform:                                                      *)
(*   ok            everything asked for is accepted                        *)
(*   refused       the TCP connection cannot be opened                     *)
(*   timeout       the operation or connect timeout expires                *)
(*   bad_password  the server rejects USER/PASS (530)                      *)
(*   tls_rejected  the server rejects AUTH TLS                             *)
(*   missing       the server answers 550 for the path named               *)
(***************************************************************************)
Scenarios == {"ok", "refused", "timeout", "bad_password", "tls_rejected", "missing"}

\* The bytes a directory listing may consist of, as the chunks handed to the
\* write callback: nothing at all, or one line.
Listings == {<<>>, << <<"f", "\n">> >>, << <<"f", "\n">>, <<"g", "\n">> >>}
\* The header text delivered for a body-less request with CURLOPT_HEADER.
HeaderChunks == << <<"2", "1", "3", "\n">> >>
\* What CURLINFO_CONTENT_LENGTH_DOWNLOAD_T may report after a transfer.
FileSizes == {-1, 0, 1048576}

LastChar(s) == IF strlen(s) = 0 THEN NUL ELSE s[strlen(s)]

\* What the URL and the options make libcurl ask of the server.
Kind(h) ==
    IF h.upload = 1 THEN "STOR"
    ELSE IF h.nobody = 1 THEN "HEAD"
    ELSE IF LastChar(h.url) = "/" THEN "LIST"
    ELSE "RETR"

\* The command that starts the transfer the options ask for.  LIST, RETR and
\* STOR move their bytes over a data connection; SIZE does not.
TransferCommand(h) ==
    CASE Kind(h) = "STOR" -> Str(<<"S", "T", "O", "R">>)
      [] Kind(h) = "HEAD" -> Str(<<"S", "I", "Z", "E">>)
      [] Kind(h) = "LIST" -> Str(<<"L", "I", "S", "T">>)
      [] OTHER -> Str(<<"R", "E", "T", "R">>)
DataCommands ==
    {Str(<<"S", "T", "O", "R">>), Str(<<"L", "I", "S", "T">>), Str(<<"R", "E", "T", "R">>)}

Outcome(res, chunks, filesize, sent) ==
    [res |-> res, chunks |-> chunks, filesize |-> filesize, sent |-> sent]
Failure(res, sent) == {Outcome(res, <<>>, -1, sent)}

\* The server accepts everything: libcurl sends the CURLOPT_QUOTE commands
\* in their order and then carries out the transfer.
Accepted(h) ==
    LET sent == h.quote \o <<TransferCommand(h)>> IN
    CASE Kind(h) = "LIST" -> {Outcome("CURLE_OK", l, -1, sent) : l \in Listings}
      [] Kind(h) = "HEAD" ->
            {Outcome("CURLE_OK", IF h.header = 1 THEN HeaderChunks ELSE <<>>, n, sent)
                : n \in FileSizes}
      [] OTHER -> {Outcome("CURLE_OK", <<>>, -1, sent)}

\* The server refuses the k-th CURLOPT_QUOTE command: libcurl stops there.
QuoteRefused(h) ==
    {Outcome("CURLE_QUOTE_ERROR", <<>>, -1, SubSeq(h.quote, 1, k))
        : k \in 1..Len(h.quote)}

ServerOutcomes(h, scenario) ==
    CASE scenario = "refused" -> Failure("CURLE_COULDNT_CONNECT", <<>>)
      [] scenario = "timeout" -> Failure("CURLE_OPERATION_TIMEDOUT", <<>>)
      [] scenario = "bad_password" -> Failure("CURLE_LOGIN_DENIED", <<>>)
      [] scenario = "tls_rejected" ->
            IF h.use_ssl \in {FTP_SSL_CONTROL, FTP_SSL_ALL}
            THEN Failure("CURLE_USE_SSL_FAILED", <<>>) ELSE Accepted(h)
      [] scenario = "missing" ->
            IF h.quote # <<>> THEN QuoteRefused(h)
            ELSE CASE Kind(h) = "STOR" -> Accepted(h)
                   [] Kind(h) = "RETR" ->
                        Failure("CURLE_REMOTE_FILE_NOT_FOUND", <<TransferCommand(h)>>)
                   [] Kind(h) = "LIST" -> Failure("CURLE_REMOTE_ACCESS_DENIED", <<>>)
                   [] OTHER -> Failure("CURLE_REMOTE_FILE_NOT_FOUND", <<TransferCommand(h)>>)
                               \cup {Outcome("CURLE_OK", <<>>, -1, <<TransferCommand(h)>>)}
      [] OTHER -> Accepted(h)

\* curl_easy_perform with the options h: the progress function, when one is
\* installed and enabled, is called during the transfer and at its end, and a
\* non-zero return makes the transfer fail with CURLE_ABORTED_BY_CALLBACK
\* unless it has failed otherwise before.
PerformIn(h, cfg, scenario) ==
    LET base == ServerOutcomes(h, scenario) IN
    IF h.noprogress = 0 /\ h.xferinfofunction /\ progress_callback_wrapper(cfg) # 0
    THEN Failure("CURLE_ABORTED_BY_CALLBACK", <<>>) \cup {o \in base : o.res # "CURLE_OK"}
    ELSE base

\* Every way one call of curl_easy_perform can go: the scenario, the result,
\* the chunks handed to the write function, the content length known after.
curl_easy_perform(h, cfg) ==
    UNION {{[scenario |-> sc, res |-> o.res, chunks |-> o.chunks, filesize |-> o.filesize,
             sent |-> o.sent]
              : o \in PerformIn(h, cfg, sc)} : sc \in Scenarios}

\* curl_easy_perform with write_memory_callback as the write function: the
\* result, and the buffer the callback has filled.
PerformToMemory(h, cfg) ==
    {LET d == Deliver(EmptyBuffer, o.chunks, reallocOk) IN
     [scenario |-> o.scenario, res |-> IF d.ok THEN o.res ELSE "CURLE_WRITE_ERROR",
      mem |-> d.mem, filesize |-> o.filesize, sent |-> o.sent, chunks |-> o.chunks]
        : o \in curl_easy_perform(h, cfg), reallocOk \in BOOLEAN}

curl_easy_strerror(res) == <<res>>

(***************************************************************************)
(* build_ftp_url and setup_curl_common.                                    *)
(***************************************************************************)
FtpScheme == <<"f", "t", "p", ":", "/", "/">>

\* A build_ftp_url whose length test leaves out the digits of the port.
build_ftp_url_short_count(cfg, remote_path, url_size) ==
    LET base_len == 3 + 3 + strlen(cfg.host) + 1 + 1
        path_len == IF remote_path # NULL THEN strlen(remote_path) ELSE 0
        required_len == base_len + path_len + 1
        prefix == FtpScheme \o Chars(cfg.host) \o <<":">> \o FmtD(cfg.port)
    IN  IF required_len > url_size
        THEN [rc |-> FTP_ERROR_INVALID_PARAM, url |-> NULL]
        ELSE IF remote_path # NULL /\ remote_path[1] = "/"
        THEN [rc |-> FTP_OK, url |-> Snprintf(url_size, prefix \o Chars(remote_path))]
        ELSE IF remote_path # NULL
        THEN [rc |-> FTP_OK, url |-> Snprintf(url_size, prefix \o <<"/">> \o Chars(remote_path))]
        ELSE [rc |-> FTP_OK, url |-> Snprintf(url_size, prefix \o <<"/">>)]

\* build_ftp_url(client, remote_path, url, url_size) for a host that is set:
\* the value returned and the URL written (NULL: nothing written).
build_ftp_url(cfg, remote_path, url_size) ==
    LET base_len == 3 + 3 + strlen(cfg.host) + 1 + 5 + 1
        path_len == IF remote_path # NULL THEN strlen(remote_path) ELSE 0
        required_len == base_len + path_len + 1
        prefix == FtpScheme \o Chars(cfg.host) \o <<":">> \o FmtD(cfg.port)
    IN  IF required_len > url_size
        THEN [rc |-> FTP_ERROR_INVALID_PARAM, url |-> NULL]
        ELSE IF remote_path # NULL /\ remote_path[1] = "/"
        THEN [rc |-> FTP_OK, url |-> Snprintf(url_size, prefix \o Chars(remote_path))]
        ELSE IF remote_path # NULL
        THEN [rc |-> FTP_OK, url |-> Snprintf(url_size, prefix \o <<"/">> \o Chars(remote_path))]
        ELSE [rc |-> FTP_OK, url |-> Snprintf(url_size, prefix \o <<"/">>)]

\* A setup that hands the TLS options to the engine under every policy.
TlsConfigured_always(cfg) == TRUE

\* The test before the TLS options of setup_curl_common.
TlsConfigured(cfg) == cfg.ssl_mode # FTP_SSL_NONE

setup_curl_common(h, cfg) ==
    LET h1 == [h EXCEPT !.username = cfg.username,
                        !.password = cfg.password,
                        !.timeout = cfg.timeout,
                        !.connecttimeout = cfg.connect_timeout,
                        !.verbose = IF cfg.verbose # 0 THEN 1 ELSE 0]
        h2 == IF cfg.mode = FTP_MODE_ACTIVE
              THEN [h1 EXCEPT !.ftpport = Str(<<"-">>)]
              ELSE [h1 EXCEPT !.use_epsv = 1]
        h3 == IF TlsConfigured(cfg)
              THEN [h2 EXCEPT !.use_ssl = cfg.ssl_mode,
                              !.ssl_verifypeer = IF cfg.verify_ssl # 0 THEN 1 ELSE 0,
                              !.ssl_verifyhost = IF cfg.verify_ssl # 0 THEN 2 ELSE 0]
              ELSE h2
    IN  IF cfg.progress_callback # CB_NONE
        THEN [h3 EXCEPT !.xferinfofunction = TRUE, !.noprogress = 0]
        ELSE [h3 EXCEPT !.noprogress = 1]

(***************************************************************************)
(* Undefined behaviour.  Several functions read through client->config.host*)
(* (build_ftp_url) or through remote_path (list_dir) without a NULL test.  *)
(* Reading through NULL either ends the process or reads whatever lies at  *)
(* address 0, modelled as the empty string; every such call chooses.       *)
(***************************************************************************)
ReadThrough(s) == IF s = NULL THEN Str(<<>>) ELSE s

\* A result of an API call: the call record, and last_error, the handle's
\* options and the local files after it.
Result(c, err, h, files) == [c |-> c, err |-> err, h |-> h, files |-> files]
Crashed(c, err, h, files) ==
    Result([c EXCEPT !.returned = FALSE, !.deref = TRUE], err, h, files)

\* The ways a call goes on when it reads through the pointer s.
Reads(s) == IF s = NULL THEN {"crash", "garbage"} ELSE {"valid"}
HostReads(cfg) == Reads(cfg.host)

(***************************************************************************)
(* ftp_client_connect.                                                     *)
(***************************************************************************)
\* A connect that reports every failure of the engine as a connection error.
connect_ret_flat(res) ==
    IF res # "CURLE_OK" THEN FTP_ERROR_CONNECTION ELSE FTP_OK

\* The mapping of the engine's result at the end of ftp_client_connect.
connect_ret(res) ==
    IF res # "CURLE_OK"
    THEN IF res = "CURLE_LOGIN_DENIED" THEN FTP_ERROR_AUTH
         ELSE IF res = "CURLE_OPERATION_TIMEDOUT" THEN FTP_ERROR_TIMEOUT
         ELSE FTP_ERROR_CONNECTION
    ELSE FTP_OK

\* A host test that looks at the pointer only.
HostNotSet_pointer_only(cfg) == cfg.host = NULL

\* The host test of ftp_client_connect: no host, or the empty string.
HostNotSet(cfg) == cfg.host = NULL \/ cfg.host[1] = NUL

connect_results(cfg, err, h, files, clientNull) ==
    LET c0 == BaseCall("connect", clientNull, <<>>, <<>>) IN
    IF clientNull
    THEN {Result([c0 EXCEPT !.ret = FTP_ERROR_INVALID_PARAM], err, h, files)}
    ELSE IF HostNotSet(cfg)
    THEN {Result([c0 EXCEPT !.ret = FTP_ERROR_INVALID_PARAM, !.wroteError = TRUE],
                 Msg0("Host not set"), h, files)}
    ELSE LET u == build_ftp_url(cfg, Str(<<"/">>), FTP_MAX_URL_LENGTH) IN
         IF u.rc # FTP_OK
         THEN {Result([c0 EXCEPT !.ret = u.rc, !.wroteError = TRUE],
                      Msg0("URL too long"), reset_handle(h), files)}
         ELSE LET h1 == [setup_curl_common([reset_handle(h) EXCEPT !.url = u.url], cfg)
                            EXCEPT !.writedata = "buffer"]
              IN  {Result([c0 EXCEPT !.ret = connect_ret(o.res), !.scenario = o.scenario,
                                     !.res = o.res, !.performs = 1, !.sent = o.sent,
                                     !.balloc = (o.mem.data # NULL),
                                     !.bfreed = FreeIfData(o.mem),
                                     !.wroteError = (o.res # "CURLE_OK")],
                          IF o.res # "CURLE_OK"
                          THEN Msg("Connection failed: %s", 19, curl_easy_strerror(o.res))
                          ELSE err,
                          h1, files)
                     : o \in PerformToMemory(h1, cfg)}

(***************************************************************************)
(* ftp_client_upload.                                                      *)
(***************************************************************************)
\* An upload that maps the engine's result the way ftp_client_connect does.
upload_ret_as_connect(res) ==
    IF res # "CURLE_OK"
    THEN IF res = "CURLE_LOGIN_DENIED" THEN FTP_ERROR_AUTH
         ELSE IF res = "CURLE_OPERATION_TIMEDOUT" THEN FTP_ERROR_TIMEOUT
         ELSE FTP_ERROR_TRANSFER
    ELSE FTP_OK

\* An upload of a client that remembers a lost connection and refuses to
\* work until ftp_client_connect has succeeded again.
upload_ret_needs_connect(res) ==
    IF invalidated THEN FTP_ERROR_CONNECTION
    ELSE IF res # "CURLE_OK" THEN FTP_ERROR_TRANSFER ELSE FTP_OK

upload_ret(res) == IF res # "CURLE_OK" THEN FTP_ERROR_TRANSFER ELSE FTP_OK

upload_results(cfg, err, h, files, clientNull, local_path, remote_path) ==
    LET c0 == BaseCall("upload", clientNull, <<local_path, remote_path>>, <<>>) IN
    IF clientNull \/ local_path = NULL \/ remote_path = NULL
    THEN {Result([c0 EXCEPT !.ret = FTP_ERROR_INVALID_PARAM], err, h, files)}
    ELSE IF local_path \notin files
    THEN {Result([c0 EXCEPT !.ret = FTP_ERROR_FILE_IO, !.wroteError = TRUE],
                 Msg("Cannot open local file: %s", 24, Chars(local_path)), h, files)}
    ELSE UNION {
      IF read = "crash"
      THEN {Crashed([c0 EXCEPT !.fopened = 1], err, reset_handle(h), files)}
      ELSE
        LET c1 == [c0 EXCEPT !.deref = (read = "garbage"), !.fopened = 1, !.fclosed = 1]
            u == build_ftp_url([cfg EXCEPT !.host = ReadThrough(@)], remote_path,
                               FTP_MAX_URL_LENGTH)
        IN  IF u.rc # FTP_OK
            THEN {Result([c1 EXCEPT !.ret = u.rc, !.wroteError = TRUE],
                         Msg0("Remote path too long"), reset_handle(h), files)}
            ELSE LET h1 == [setup_curl_common([reset_handle(h) EXCEPT !.url = u.url], cfg)
                               EXCEPT !.upload = 1, !.readdata = local_path]
                 IN  {Result([c1 EXCEPT !.ret = upload_ret(o.res), !.scenario = o.scenario,
                                        !.res = o.res, !.performs = 1, !.sent = o.sent,
                                        !.wroteError = (o.res # "CURLE_OK")],
                             IF o.res # "CURLE_OK"
                             THEN Msg("Upload failed: %s", 15, curl_easy_strerror(o.res))
                             ELSE err,
                             h1, files)
                        : o \in curl_easy_perform(h1, cfg)}
      : read \in HostReads(cfg)}

(***************************************************************************)
(* ftp_client_download.                                                    *)
(***************************************************************************)
\* A download without the test for CURLE_REMOTE_FILE_NOT_FOUND.
download_ret_flat(res) ==
    IF res # "CURLE_OK" THEN FTP_ERROR_TRANSFER ELSE FTP_OK

download_ret(res) ==
    IF res # "CURLE_OK"
    THEN IF res = "CURLE_REMOTE_FILE_NOT_FOUND" THEN FTP_ERROR_FILE_NOT_FOUND
         ELSE FTP_ERROR_TRANSFER
    ELSE FTP_OK

\* The local files after the engine returned res: remove(local_path) on failure.
download_cleanup(files, local_path, res) ==
    IF res # "CURLE_OK" THEN files \ {local_path} ELSE files

download_results(cfg, err, h, files, clientNull, remote_path, local_path) ==
    LET c0 == BaseCall("download", clientNull, <<remote_path, local_path>>, <<>>) IN
    IF clientNull \/ local_path = NULL \/ remote_path = NULL
    THEN {Result([c0 EXCEPT !.ret = FTP_ERROR_INVALID_PARAM], err, h, files)}
    ELSE IF ~Creatable(local_path)
    THEN {Result([c0 EXCEPT !.ret = FTP_ERROR_FILE_IO, !.wroteError = TRUE],
                 Msg("Cannot create local file: %s", 26, Chars(local_path)), h, files)}
    ELSE UNION {
      \* fopen(local_path, "wb") has created (or emptied) the file
      LET files1 == files \cup {local_path}
          c1 == [c0 EXCEPT !.created = TRUE, !.deref = (read = "garbage"),
                           !.fopened = 1, !.fclosed = IF read = "crash" THEN 0 ELSE 1]
      IN
      IF read = "crash" THEN {Crashed(c1, err, reset_handle(h), files1)}
      ELSE
        LET u == build_ftp_url([cfg EXCEPT !.host = ReadThrough(@)], remote_path,
                               FTP_MAX_URL_LENGTH)
        IN  IF u.rc # FTP_OK
            THEN {Result([c1 EXCEPT !.ret = u.rc, !.wroteError = TRUE],
                         Msg0("Remote path too long"), reset_handle(h), files1)}
            ELSE LET h1 == [setup_curl_common([reset_handle(h) EXCEPT !.url = u.url], cfg)
                               EXCEPT !.writedata = local_path]
                 IN  {Result([c1 EXCEPT !.ret = download_ret(o.res), !.scenario = o.scenario,
                                        !.res = o.res, !.performs = 1, !.sent = o.sent,
                                        !.wroteError = (o.res # "CURLE_OK")],
                             IF o.res # "CURLE_OK"
                             THEN Msg("Download failed: %s", 17, curl_easy_strerror(o.res))
                             ELSE err,
                             h1, download_cleanup(files1, local_path, o.res))
                        : o \in curl_easy_perform(h1, cfg)}
      : read \in HostReads(cfg)}

(***************************************************************************)
(* ftp_client_list_dir.                                                    *)
(***************************************************************************)
\* The directory path list_dir builds in dir_path[FTP_MAX_URL_LENGTH].
list_dir_path(remote_path) ==
    LET len == strlen(remote_path) IN
    IF len > 0 /\ remote_path[len] # "/"
    THEN Snprintf(FTP_MAX_URL_LENGTH, Chars(remote_path) \o <<"/">>)
    ELSE Snprintf(FTP_MAX_URL_LENGTH, Chars(remote_path))

list_dir_ret(res) == IF res # "CURLE_OK" THEN FTP_ERROR_TRANSFER ELSE FTP_OK

list_dir_results(cfg, err, h, files, clientNull, remote_path, output) ==
    LET c0 == BaseCall("list_dir", clientNull, <<remote_path, output>>, <<>>) IN
    IF clientNull \/ output = NULL
    THEN {Result([c0 EXCEPT !.ret = FTP_ERROR_INVALID_PARAM], err, h, files)}
    ELSE UNION {
      IF pread = "crash" \/ hread = "crash"
      THEN {Crashed(c0, err, reset_handle(h), files)}
      ELSE
        LET c1 == [c0 EXCEPT !.deref = (pread = "garbage" \/ hread = "garbage")]
            dir_path == list_dir_path(ReadThrough(remote_path))
            u == build_ftp_url([cfg EXCEPT !.host = ReadThrough(@)], dir_path,
                               FTP_MAX_URL_LENGTH)
        IN  IF u.rc # FTP_OK
            THEN {Result([c1 EXCEPT !.ret = u.rc, !.wroteError = TRUE],
                         Msg0("Directory path too long"), reset_handle(h), files)}
            ELSE LET h1 == [setup_curl_common([reset_handle(h) EXCEPT !.url = u.url], cfg)
                               EXCEPT !.writedata = "buffer"]
                 IN  {Result([c1 EXCEPT !.ret = list_dir_ret(o.res), !.scenario = o.scenario,
                                        !.res = o.res, !.performs = 1, !.sent = o.sent,
                                        !.wroteError = (o.res # "CURLE_OK"),
                                        !.received = o.chunks,
                                        !.balloc = (o.mem.data # NULL),
                                        !.bfreed = IF o.res # "CURLE_OK"
                                                   THEN FreeIfData(o.mem) ELSE 0,
                                        !.bhanded = IF o.res # "CURLE_OK"
                                                    THEN 0 ELSE FreeIfData(o.mem),
                                        !.outAfter = IF o.res # "CURLE_OK" THEN @
                                                     ELSE o.mem.data],
                             IF o.res # "CURLE_OK"
                             THEN Msg("Directory listing failed: %s", 26,
                                      curl_easy_strerror(o.res))
                             ELSE err,
                             h1, files)
                        : o \in PerformToMemory(h1, cfg)}
      : pread \in Reads(remote_path), hread \in HostReads(cfg)}

(***************************************************************************)
(* ftp_client_execute_simple_command and the four commands built on it.    *)
(***************************************************************************)
CMD_SIZE == 512

\* curl_slist_append(list, s): the list with s appended, or NULL (the empty
\* sequence) when the allocation fails.
curl_slist_append(list, s, ok) == IF ok THEN Append(list, s) ELSE <<>>
\* The nodes a call of curl_slist_append allocates: one for s, or none.
Appended(s, ok) == IF ok THEN <<s>> ELSE <<>>

\* snprintf(cmd, sizeof(cmd), "VERB %s%s", path[0] == '/' ? "" : "/", path)
command_line(verb, path) ==
    Snprintf(CMD_SIZE, verb \o <<" ">> \o (IF path[1] = "/" THEN <<>> ELSE <<"/">>)
                       \o Chars(path))

simple_ret(res) == IF res # "CURLE_OK" THEN FTP_ERROR_TRANSFER ELSE FTP_OK

\* ftp_client_execute_simple_command(client, commands, error_prefix), called
\* with a client that is not NULL, on behalf of the call c0.
execute_simple_command(cfg, err, h, files, c0, commands, error_prefix) ==
    IF commands = <<>>
    THEN {Result([c0 EXCEPT !.ret = FTP_ERROR_INVALID_PARAM], err, h, files)}
    ELSE UNION {
      IF read = "crash" THEN {Crashed(c0, err, reset_handle(h), files)}
      ELSE
        LET c1 == [c0 EXCEPT !.deref = (read = "garbage")]
            u == build_ftp_url([cfg EXCEPT !.host = ReadThrough(@)], Str(<<"/">>),
                               FTP_MAX_URL_LENGTH)
        IN  IF u.rc # FTP_OK
            THEN {Result([c1 EXCEPT !.ret = u.rc, !.wroteError = TRUE],
                         Msg("%s: URL too long", 14, <<error_prefix>>),
                         reset_handle(h), files)}
            ELSE LET h1 == [setup_curl_common([reset_handle(h) EXCEPT !.url = u.url], cfg)
                               EXCEPT !.quote = commands, !.writedata = "buffer"]
                 IN  {Result([c1 EXCEPT !.ret = simple_ret(o.res), !.scenario = o.scenario,
                                        !.res = o.res, !.performs = 1, !.sent = o.sent,
                                        !.balloc = (o.mem.data # NULL),
                                        !.bfreed = FreeIfData(o.mem),
                                        !.quote = commands,
                                        !.wroteError = (o.res # "CURLE_OK")],
                             IF o.res # "CURLE_OK"
                             THEN Msg("%s: %s", 2,
                                      <<error_prefix>> \o curl_easy_strerror(o.res))
                             ELSE err,
                             h1, files)
                        : o \in PerformToMemory(h1, cfg)}
      : read \in HostReads(cfg)}

\* ftp_client_mkdir, ftp_client_rmdir and ftp_client_delete differ in the verb
\* and the error prefix only.
one_command_results(cfg, err, h, files, op, verb, error_prefix, clientNull, remote_path, slistOk) ==
    LET c0 == BaseCall(op, clientNull, <<remote_path>>, <<>>) IN
    IF clientNull \/ remote_path = NULL
    THEN {Result([c0 EXCEPT !.ret = FTP_ERROR_INVALID_PARAM], err, h, files)}
    ELSE LET cmd == command_line(verb, remote_path)
             commands == curl_slist_append(<<>>, cmd, slistOk)
         IN  execute_simple_command(cfg, err, h, files,
                [c0 EXCEPT !.nodes = Appended(cmd, slistOk), !.nodesFreed = commands],
                commands, error_prefix)

rename_results(cfg, err, h, files, clientNull, old_path, new_path, ok1, ok2) ==
    LET c0 == BaseCall("rename", clientNull, <<old_path, new_path>>, <<>>) IN
    IF clientNull \/ old_path = NULL \/ new_path = NULL
    THEN {Result([c0 EXCEPT !.ret = FTP_ERROR_INVALID_PARAM], err, h, files)}
    ELSE LET cmd1 == command_line(<<"R", "N", "F", "R">>, old_path)
             cmd2 == command_line(<<"R", "N", "T", "O">>, new_path)
             commands == curl_slist_append(curl_slist_append(<<>>, cmd1, ok1), cmd2, ok2)
         IN  execute_simple_command(cfg, err, h, files,
                [c0 EXCEPT !.nodes = Appended(cmd1, ok1) \o Appended(cmd2, ok2),
                           !.nodesFreed = commands],
                commands, "Rename failed")

(***************************************************************************)
(* ftp_client_get_filesize.                                                *)
(***************************************************************************)
\* curl_easy_getinfo(CURLINFO_CONTENT_LENGTH_DOWNLOAD_T) on a valid handle.
curl_easy_getinfo == "CURLE_OK"

\* An end of ftp_client_get_filesize that tells a missing file apart, as
\* ftp_client_download does.
filesize_end_not_found(res, filesize, sizeBefore) ==
    IF res # "CURLE_OK"
    THEN [ret |-> IF res = "CURLE_REMOTE_FILE_NOT_FOUND"
                  THEN FTP_ERROR_FILE_NOT_FOUND ELSE FTP_ERROR_TRANSFER,
          size |-> sizeBefore,
          msg |-> Msg("Get file size failed: %s", 22, curl_easy_strerror(res))]
    ELSE IF curl_easy_getinfo = "CURLE_OK" /\ filesize >= 0
    THEN [ret |-> FTP_OK, size |-> filesize, msg |-> NoMsg]
    ELSE [ret |-> FTP_ERROR_TRANSFER, size |-> sizeBefore,
          msg |-> Msg0("Could not retrieve file size")]

\* An end of ftp_client_get_filesize that stores the length before testing it.
filesize_end_store_first(res, filesize, sizeBefore) ==
    IF res # "CURLE_OK"
    THEN [ret |-> FTP_ERROR_TRANSFER, size |-> sizeBefore,
          msg |-> Msg("Get file size failed: %s", 22, curl_easy_strerror(res))]
    ELSE IF curl_easy_getinfo = "CURLE_OK" /\ filesize >= 0
    THEN [ret |-> FTP_OK, size |-> filesize, msg |-> NoMsg]
    ELSE [ret |-> FTP_ERROR_TRANSFER, size |-> filesize,
          msg |-> Msg0("Could not retrieve file size")]

\* The end of ftp_client_get_filesize, after curl_easy_perform returned res
\* and the engine knows the content length filesize: the value returned, the
\* caller's *size afterwards, and the message stored (NoMsg: none).
filesize_end(res, filesize, sizeBefore) ==
    IF res # "CURLE_OK"
    THEN [ret |-> FTP_ERROR_TRANSFER, size |-> sizeBefore,
          msg |-> Msg("Get file size failed: %s", 22, curl_easy_strerror(res))]
    ELSE IF curl_easy_getinfo = "CURLE_OK" /\ filesize >= 0
    THEN [ret |-> FTP_OK, size |-> filesize, msg |-> NoMsg]
    ELSE [ret |-> FTP_ERROR_TRANSFER, size |-> sizeBefore,
          msg |-> Msg0("Could not retrieve file size")]

get_filesize_results(cfg, err, h, files, clientNull, remote_path, size) ==
    LET c0 == BaseCall("get_filesize", clientNull, <<remote_path, size>>, <<>>) IN
    IF clientNull \/ remote_path = NULL \/ size = NULL
    THEN {Result([c0 EXCEPT !.ret = FTP_ERROR_INVALID_PARAM], err, h, files)}
    ELSE UNION {
      IF read = "crash" THEN {Crashed(c0, err, reset_handle(h), files)}
      ELSE
        LET c1 == [c0 EXCEPT !.deref = (read = "garbage")]
            u == build_ftp_url([cfg EXCEPT !.host = ReadThrough(@)], remote_path,
                               FTP_MAX_URL_LENGTH)
        IN  IF u.rc # FTP_OK
            THEN {Result([c1 EXCEPT !.ret = u.rc, !.wroteError = TRUE],
                         Msg0("Remote path too long"), reset_handle(h), files)}
            ELSE LET h1 == [setup_curl_common([reset_handle(h) EXCEPT !.url = u.url], cfg)
                               EXCEPT !.nobody = 1, !.filetime = 1, !.header = 1,
                                      !.writedata = "buffer"]
                 IN  {LET e == filesize_end(o.res, o.filesize, c1.sizeBefore) IN
                      Result([c1 EXCEPT !.ret = e.ret, !.scenario = o.scenario,
                                        !.res = o.res, !.performs = 1, !.sent = o.sent,
                                        !.sizeAfter = e.size,
                                        !.balloc = (o.mem.data # NULL),
                                        !.bfreed = FreeIfData(o.mem),
                                        !.wroteError = (e.ret # FTP_OK)],
                             IF e.ret # FTP_OK THEN e.msg ELSE err,
                             h1, files)
                        : o \in PerformToMemory(h1, cfg)}
      : read \in HostReads(cfg)}

(***************************************************************************)
(* ftp_client_execute_command.                                             *)
(***************************************************************************)
Commands == {NULL, Str(<<"S", "T", "A", "T">>)}

execute_command_ret(res) == IF res # "CURLE_OK" THEN FTP_ERROR_TRANSFER ELSE FTP_OK

execute_command_results(cfg, err, h, files, clientNull, command, response, slistOk) ==
    LET c0 == BaseCall("execute_command", clientNull, <<command, response>>, <<>>) IN
    IF clientNull \/ command = NULL
    THEN {Result([c0 EXCEPT !.ret = FTP_ERROR_INVALID_PARAM], err, h, files)}
    ELSE UNION {
      IF read = "crash" THEN {Crashed(c0, err, reset_handle(h), files)}
      ELSE
        LET c1 == [c0 EXCEPT !.deref = (read = "garbage")]
            u == build_ftp_url([cfg EXCEPT !.host = ReadThrough(@)], Str(<<"/">>),
                               FTP_MAX_URL_LENGTH)
        IN  IF u.rc # FTP_OK
            THEN {Result([c1 EXCEPT !.ret = u.rc, !.wroteError = TRUE],
                         Msg0("URL too long"), reset_handle(h), files)}
            ELSE LET commands == curl_slist_append(<<>>, command, slistOk)
                     h1 == [setup_curl_common([reset_handle(h) EXCEPT !.url = u.url], cfg)
                               EXCEPT !.quote = commands, !.writedata = "buffer"]
                 IN  {Result([c1 EXCEPT !.ret = execute_command_ret(o.res),
                                        !.scenario = o.scenario,
                                        !.res = o.res, !.performs = 1, !.sent = o.sent,
                                        !.quote = commands,
                                        !.nodes = Appended(command, slistOk),
                                        !.nodesFreed = commands,
                                        !.balloc = (o.mem.data # NULL),
                                        !.bfreed = IF o.res = "CURLE_OK" /\ response # NULL
                                                   THEN 0 ELSE FreeIfData(o.mem),
                                        !.bhanded = IF o.res = "CURLE_OK" /\ response # NULL
                                                    THEN FreeIfData(o.mem) ELSE 0,
                                        !.wroteError = (o.res # "CURLE_OK"),
                                        !.outAfter = IF o.res = "CURLE_OK" /\ response # NULL
                                                     THEN o.mem.data ELSE @],
                             IF o.res # "CURLE_OK"
                             THEN Msg("Command execution failed: %s", 26,
                                      curl_easy_strerror(o.res))
                             ELSE err,
                             h1, files)
                        : o \in PerformToMemory(h1, cfg)}
      : read \in HostReads(cfg)}

(***************************************************************************)
(* ftp_client_get_error: what the caller reads.                            *)
(***************************************************************************)
ftp_client_get_error(clientNull, err) ==
    IF clientNull THEN Msg0("Invalid client handle") ELSE err

(***************************************************************************)
(* The operations as actions.                                              *)
(***************************************************************************)
\* The results of the engine after which the control connection is gone.
ConnectionLost ==
    {"CURLE_COULDNT_CONNECT", "CURLE_OPERATION_TIMEDOUT", "CURLE_USE_SSL_FAILED"}

Apply(r) ==
    /\ call' = [r.c EXCEPT !.invalidatedBefore = invalidated]
    /\ invalidated' = IF r.c.performs = 1 /\ r.c.res \in ConnectionLost THEN TRUE
                      ELSE IF r.c.op = "connect" /\ r.c.returned /\ r.c.ret = FTP_OK
                      THEN FALSE
                      ELSE invalidated
    /\ last_error' = r.err
    /\ curl' = r.h
    /\ localFiles' = r.files
    /\ pc' = IF r.c.returned THEN "running" ELSE "crashed"
    /\ ncalls' = ncalls + 1
    /\ UNCHANGED config

\* The pointer tuples a caller passes: every combination of valid pointers,
\* and each pointer NULL in turn with the others valid.
OneNull(valid) ==
    {[i \in 1..Len(valid) |-> IF i = k THEN NULL ELSE valid[i]] : k \in 1..Len(valid)}

\* Every remote path with a local file that opens, and a local file that
\* does not open with a valid remote path.
UploadArgs ==
    {<<LocalSrc, r>> : r \in RemotePaths \ {NULL}}
        \cup {<<LocalGood, AbsPath>>, <<LocalBad, AbsPath>>}
        \cup OneNull(<<LocalSrc, AbsPath>>)
DownloadArgs ==
    {<<r, LocalGood>> : r \in RemotePaths \ {NULL}}
        \cup {<<AbsPath, LocalBad>>}
        \cup OneNull(<<AbsPath, LocalGood>>)
ListArgs == {<<r, Addr>> : r \in RemotePaths} \cup {<<AbsPath, NULL>>}
\* The last components tell whether each curl_slist_append returns memory: an
\* allocation fails in calls whose arguments are valid and short.
PathArgs ==
    {<<r, TRUE>> : r \in RemotePaths} \cup {<<AbsPath, FALSE>>, <<InjectPath, TRUE>>}
\* ftp_client_mkdir and ftp_client_rmdir are ftp_client_delete with another
\* verb: they are tried with the short paths.
ShortPathArgs == {<<r, TRUE>> : r \in {NULL, AbsPath, RelPath}}
RenameArgs ==
    {<<o, n, TRUE, TRUE>> : o \in {AbsPath, RelPath}, n \in {RelPath, LongPath}}
        \cup {<<a[1], a[2], TRUE, TRUE>> : a \in OneNull(<<AbsPath, RelPath>>)}
        \cup {<<AbsPath, RelPath, FALSE, TRUE>>, <<AbsPath, RelPath, TRUE, FALSE>>,
              <<AbsPath, InjectPath, TRUE, TRUE>>}
SizeArgs == {<<r, Addr>> : r \in RemotePaths} \cup {<<AbsPath, NULL>>}
CommandArgs ==
    {<<c, a, TRUE>> : c \in Commands, a \in {NULL, Addr}}
        \cup {<<Str(<<"S", "T", "A", "T">>), Addr, FALSE>>, <<InjectCommand, Addr, TRUE>>}

ftp_client_connect ==
    /\ Callable
    /\ \E clientNull \in BOOLEAN :
        \E r \in connect_results(config, last_error, curl, localFiles, clientNull) :
            Apply(r)

ftp_client_upload ==
    /\ Callable
    /\ \E a \in ClientAndArgs(UploadArgs, <<LocalSrc, AbsPath>>) :
        \E r \in upload_results(config, last_error, curl, localFiles,
                                a[1], a[2][1], a[2][2]) : Apply(r)

ftp_client_download ==
    /\ Callable
    /\ \E a \in ClientAndArgs(DownloadArgs, <<AbsPath, LocalGood>>) :
        \E r \in download_results(config, last_error, curl, localFiles,
                                  a[1], a[2][1], a[2][2]) : Apply(r)

ftp_client_list_dir ==
    /\ Callable
    /\ \E a \in ClientAndArgs(ListArgs, <<AbsPath, Addr>>) :
        \E r \in list_dir_results(config, last_error, curl, localFiles,
                                  a[1], a[2][1], a[2][2]) : Apply(r)

ftp_client_mkdir ==
    /\ Callable
    /\ \E a \in ClientAndArgs(ShortPathArgs, <<AbsPath, TRUE>>) :
        \E r \in one_command_results(config, last_error, curl, localFiles,
                                     "mkdir", <<"M", "K", "D">>, "Create directory failed",
                                     a[1], a[2][1], a[2][2]) : Apply(r)

ftp_client_rmdir ==
    /\ Callable
    /\ \E a \in ClientAndArgs(ShortPathArgs, <<AbsPath, TRUE>>) :
        \E r \in one_command_results(config, last_error, curl, localFiles,
                                     "rmdir", <<"R", "M", "D">>, "Remove directory failed",
                                     a[1], a[2][1], a[2][2]) : Apply(r)

ftp_client_delete ==
    /\ Callable
    /\ \E a \in ClientAndArgs(PathArgs, <<AbsPath, TRUE>>) :
        \E r \in one_command_results(config, last_error, curl, localFiles,
                                     "delete", <<"D", "E", "L", "E">>, "Delete file failed",
                                     a[1], a[2][1], a[2][2]) : Apply(r)

ftp_client_rename ==
    /\ Callable
    /\ \E a \in ClientAndArgs(RenameArgs, <<AbsPath, RelPath, TRUE, TRUE>>) :
        \E r \in rename_results(config, last_error, curl, localFiles,
                                a[1], a[2][1], a[2][2], a[2][3], a[2][4]) : Apply(r)

ftp_client_get_filesize ==
    /\ Callable
    /\ \E a \in ClientAndArgs(SizeArgs, <<AbsPath, Addr>>) :
        \E r \in get_filesize_results(config, last_error, curl, localFiles,
                                      a[1], a[2][1], a[2][2]) : Apply(r)

ftp_client_execute_command ==
    /\ Callable
    /\ \E a \in ClientAndArgs(CommandArgs, <<Str(<<"S", "T", "A", "T">>), Addr, TRUE>>) :
        \E r \in execute_command_results(config, last_error, curl, localFiles,
                                         a[1], a[2][1], a[2][2], a[2][3]) : Apply(r)

\* ftp_client_destroy(client): the handle is gone and is not used again.
ftp_client_destroy ==
    /\ Callable
    /\ pc' = "destroyed"
    /\ call' = BaseCall("destroy", FALSE, <<>>, <<>>)
    /\ ncalls' = ncalls + 1
    /\ UNCHANGED <<config, last_error, curl, localFiles, invalidated>>

\* The client is followed from its creation, or from the state a successful
\* ftp_client_set_host(client, host, 21) leaves a created client in.
InitConfigs ==
    {ftp_client_init_config}
        \cup {set_host_result(ftp_client_init_config, FALSE, host, 21, TRUE).cfg
                : host \in {ShortHost, LongHost}}

Init ==
    /\ pc = "running"
    /\ config \in InitConfigs
    /\ last_error = NoMsg
    /\ curl = curl_easy_reset
    /\ localFiles = {LocalSrc}
    /\ call = Idle
    /\ ncalls = 0
    /\ invalidated = FALSE

\* The caller has looked at what the last call returned and goes on.
Continue ==
    /\ pc = "running" /\ call # Idle
    /\ call' = Idle
    /\ UNCHANGED <<pc, config, last_error, curl, localFiles, ncalls, invalidated>>

Next ==
    \/ Continue
    \/ ftp_client_set_host
    \/ ftp_client_set_credentials
    \/ ftp_client_set_mode
    \/ ftp_client_set_ssl
    \/ ftp_client_set_timeout
    \/ ftp_client_set_verbose
    \/ ftp_client_set_progress_callback
    \/ ftp_client_connect
    \/ ftp_client_upload
    \/ ftp_client_download
    \/ ftp_client_list_dir
    \/ ftp_client_mkdir
    \/ ftp_client_rmdir
    \/ ftp_client_delete
    \/ ftp_client_rename
    \/ ftp_client_get_filesize
    \/ ftp_client_execute_command
    \/ ftp_client_destroy

Spec == Init /\ [][Next]_vars

(***************************************************************************)
(* URLs at the limit of the buffer.  A second specification follows one    *)
(* call on a client whose host, together with the path of the call, is     *)
(* just below, at or just above what url[FTP_MAX_URL_LENGTH] holds.        *)
(***************************************************************************)
\* With a host of 2022 to 2024 characters and a path of 9 to 12, the sum
\* passes 2034, the largest that build_ftp_url lets through.
UrlHosts == {Str(Rep("h", n)) : n \in (FTP_MAX_URL_LENGTH - 26)..(FTP_MAX_URL_LENGTH - 24)}
UrlPorts == {0, 1, 21, 65535, 65536}
UrlPaths ==
    {Str(<<"/">> \o Rep("p", n - 1)) : n \in 9..12} \cup {Str(Rep("p", n)) : n \in 9..12}

UrlInit ==
    /\ pc = "running"
    /\ config \in {set_host_result(ftp_client_init_config, FALSE, host, port, TRUE).cfg
                    : host \in UrlHosts, port \in UrlPorts}
    /\ last_error = NoMsg
    /\ curl = curl_easy_reset
    /\ localFiles = {LocalSrc}
    /\ call = Idle
    /\ ncalls = 0
    /\ invalidated = FALSE

UrlCallable == pc = "running" /\ call = Idle

\* build_ftp_url on its own: the call record holds the value returned and,
\* as outAfter, the URL written.
BuildUrl ==
    /\ UrlCallable
    /\ \E path \in UrlPaths :
        LET u == build_ftp_url(config, path, FTP_MAX_URL_LENGTH) IN
        /\ call' = [BaseCall("build_ftp_url", FALSE, <<path>>, <<>>)
                        EXCEPT !.ret = u.rc, !.outAfter = u.url]
        /\ ncalls' = ncalls + 1
        /\ UNCHANGED <<pc, config, last_error, curl, localFiles, invalidated>>

UrlUpload ==
    /\ UrlCallable
    /\ \E path \in UrlPaths :
        \E r \in upload_results(config, last_error, curl, localFiles,
                                FALSE, LocalSrc, path) : Apply(r)

UrlDownload ==
    /\ UrlCallable
    /\ \E path \in UrlPaths :
        \E r \in download_results(config, last_error, curl, localFiles,
                                  FALSE, path, LocalGood) : Apply(r)

UrlListDir ==
    /\ UrlCallable
    /\ \E path \in UrlPaths :
        \E r \in list_dir_results(config, last_error, curl, localFiles,
                                  FALSE, path, Addr) : Apply(r)

UrlGetFilesize ==
    /\ UrlCallable
    /\ \E path \in UrlPaths :
        \E r \in get_filesize_results(config, last_error, curl, localFiles,
                                      FALSE, path, Addr) : Apply(r)

UrlNext ==
    \/ BuildUrl
    \/ UrlUpload
    \/ UrlDownload
    \/ UrlListDir
    \/ UrlGetFilesize

UrlSpec == UrlInit /\ [][UrlNext]_vars

(***************************************************************************)
(* write_memory_callback on its own.  A third specification calls it       *)
(* MaxWrites times on the zeroed buffer, with chunks that fit, that fill   *)
(* the capacity to the last byte, and that need one or two doublings.  The *)
(* call record holds the buffer before and after the call.                 *)
(***************************************************************************)
MaxWrites == 3
ChunkSizes == {0, 1, FTP_BUFFER_SIZE - 1, FTP_BUFFER_SIZE, 2 * FTP_BUFFER_SIZE}
\* The byte the k-th call delivers: each call has its own.
ChunkByte(k) == CASE k = 0 -> "a" [] k = 1 -> "b" [] k = 2 -> "c" [] OTHER -> "d"

BufferCall(before, contents, reallocOk, r) ==
    [op |-> "write_memory_callback", before |-> before, contents |-> contents,
     reallocOk |-> reallocOk, mem |-> r.mem, ret |-> r.ret]

BufInit ==
    /\ pc = "running"
    /\ config = ftp_client_init_config
    /\ last_error = NoMsg
    /\ curl = curl_easy_reset
    /\ localFiles = {}
    /\ call = [op |-> "none", mem |-> EmptyBuffer]
    /\ ncalls = 0
    /\ invalidated = FALSE

WriteChunk ==
    /\ ncalls < MaxWrites
    /\ \E n \in ChunkSizes, reallocOk \in BOOLEAN :
        LET contents == Rep(ChunkByte(ncalls), n) IN
        call' = BufferCall(call.mem, contents, reallocOk,
                           write_memory_callback(call.mem, contents, reallocOk))
    /\ ncalls' = ncalls + 1
    /\ UNCHANGED <<pc, config, last_error, curl, localFiles, invalidated>>

BufNext == WriteChunk

BufSpec == BufInit /\ [][BufNext]_vars

(***************************************************************************)
(* The claims.  Each is a statement about the call that has just ended,    *)
(* recorded in `call`, and the client's state after it.                    *)
(***************************************************************************)
Operations ==
    {"connect", "upload", "download", "list_dir", "mkdir", "rmdir", "delete",
     "rename", "get_filesize", "execute_command"}

\* The pointer arguments an operation requires besides the client: all of
\* them, but for the response of ftp_client_execute_command, which may be NULL.
RequiredPtrs(c) ==
    IF c.op = "execute_command" THEN {1} ELSE DOMAIN c.ptrs

HasNullArgument(c) ==
    c.clientNull \/ \E i \in RequiredPtrs(c) : c.ptrs[i] = NULL

\* C1: an operation called with a NULL client or a NULL required pointer
\* returns FTP_ERROR_INVALID_PARAM, has read through no NULL pointer and has
\* not invoked the engine; so does ftp_client_list_dir for a NULL remote_path.
C1_NullArgumentRejected ==
    (call.op \in Operations /\ HasNullArgument(call))
        => /\ call.returned
           /\ call.ret = FTP_ERROR_INVALID_PARAM
           /\ ~call.deref
           /\ call.performs = 0

\* C2: ftp_client_set_host with a client, a host and a port outside 1..65535
\* returns FTP_ERROR_INVALID_PARAM.
C2_PortOutOfRangeRejected ==
    (/\ call.op = "set_host"
     /\ ~call.clientNull
     /\ call.ptrs[1] # NULL
     /\ call.ints[1] \notin 1..65535)
        => call.ret = FTP_ERROR_INVALID_PARAM

\* C3: when ftp_client_download has created the local file and returns a
\* failure, the file at local_path does not exist any more.
C3_FailedDownloadLeavesNoFile ==
    (/\ call.op = "download"
     /\ call.returned
     /\ call.created
     /\ call.ret # FTP_OK)
        => call.ptrs[2] \notin localFiles

\* C4 as stated: every operation that reached the engine reports rejected
\* credentials as FTP_ERROR_AUTH and an expired timeout as FTP_ERROR_TIMEOUT.
C4_EveryOperationReportsAuthAndTimeout ==
    (call.op \in Operations /\ call.performs = 1)
        => /\ (call.scenario = "bad_password" /\ call.res = "CURLE_LOGIN_DENIED")
                => call.ret = FTP_ERROR_AUTH
           /\ (call.scenario = "timeout" /\ call.res = "CURLE_OPERATION_TIMEDOUT")
                => call.ret = FTP_ERROR_TIMEOUT

\* C4 amended: ftp_client_connect alone reports rejected credentials as
\* FTP_ERROR_AUTH and an expired timeout as FTP_ERROR_TIMEOUT; every other
\* operation reports both as FTP_ERROR_TRANSFER.
C4_OnlyConnectReportsAuthAndTimeout ==
    (/\ call.op \in Operations
     /\ call.performs = 1
     /\ call.res \in {"CURLE_LOGIN_DENIED", "CURLE_OPERATION_TIMEDOUT"})
        => call.ret = IF call.op # "connect" THEN FTP_ERROR_TRANSFER
                      ELSE IF call.res = "CURLE_LOGIN_DENIED" THEN FTP_ERROR_AUTH
                      ELSE FTP_ERROR_TIMEOUT

\* An upload for which the server rejected the password has ended.
C4_Witness ==
    /\ call.op = "upload"
    /\ call.scenario = "bad_password"
    /\ call.res = "CURLE_LOGIN_DENIED"
    /\ call.ret = FTP_ERROR_TRANSFER

\* C5: ftp_client_connect returns FTP_OK when the engine succeeded,
\* FTP_ERROR_AUTH when it reported a denied login, FTP_ERROR_TIMEOUT when it
\* reported a timeout and FTP_ERROR_CONNECTION for every other failure, and
\* after each failure last_error is "Connection failed: " and the engine's text.
C5_ConnectMapping ==
    (call.op = "connect" /\ call.performs = 1)
        => /\ call.res = "CURLE_OK" => call.ret = FTP_OK
           /\ call.res = "CURLE_LOGIN_DENIED" => call.ret = FTP_ERROR_AUTH
           /\ call.res = "CURLE_OPERATION_TIMEDOUT" => call.ret = FTP_ERROR_TIMEOUT
           /\ call.res \notin {"CURLE_OK", "CURLE_LOGIN_DENIED", "CURLE_OPERATION_TIMEDOUT"}
                => call.ret = FTP_ERROR_CONNECTION
           /\ call.res # "CURLE_OK"
                => /\ last_error.fmt = "Connection failed: %s"
                   /\ last_error.arg = <<call.res>>

\* A connect that the server answered with a rejected password has ended.
C5_Witness ==
    /\ call.op = "connect"
    /\ call.scenario = "bad_password"
    /\ call.ret = FTP_ERROR_AUTH
    /\ last_error.fmt = "Connection failed: %s"

\* C6: ftp_client_download returns FTP_ERROR_FILE_NOT_FOUND when the engine
\* found the remote file missing, FTP_ERROR_TRANSFER for every other failure
\* of the engine, and FTP_OK only when the engine ran and succeeded.
C6_DownloadMapping ==
    (call.op = "download" /\ call.returned)
        => /\ call.ret = FTP_OK <=> (call.performs = 1 /\ call.res = "CURLE_OK")
           /\ call.performs = 1 =>
                /\ call.res = "CURLE_REMOTE_FILE_NOT_FOUND"
                     => call.ret = FTP_ERROR_FILE_NOT_FOUND
                /\ call.res \notin {"CURLE_OK", "CURLE_REMOTE_FILE_NOT_FOUND"}
                     => call.ret = FTP_ERROR_TRANSFER
                /\ (call.scenario = "missing" /\ config.progress_callback # CB_ABORT)
                     => call.ret = FTP_ERROR_FILE_NOT_FOUND

\* A download of a path the server does not have has ended.
C6_Witness ==
    /\ call.op = "download"
    /\ call.scenario = "missing"
    /\ call.ret = FTP_ERROR_FILE_NOT_FOUND

\* C7 as stated: ftp_client_get_filesize of a path the server does not have
\* returns FTP_ERROR_FILE_NOT_FOUND.
C7_FilesizeOfMissingIsNotFound ==
    (/\ call.op = "get_filesize"
     /\ call.returned
     /\ call.performs = 1
     /\ call.scenario = "missing")
        => call.ret = FTP_ERROR_FILE_NOT_FOUND

\* C7 amended: ftp_client_get_filesize of a path the server does not have
\* returns FTP_ERROR_TRANSFER, and no call of it returns
\* FTP_ERROR_FILE_NOT_FOUND.
C7_FilesizeOfMissingIsTransfer ==
    (call.op = "get_filesize" /\ call.returned)
        => /\ call.ret # FTP_ERROR_FILE_NOT_FOUND
           /\ (call.performs = 1 /\ call.scenario = "missing")
                => call.ret = FTP_ERROR_TRANSFER

\* The engine has reported the file of a get_filesize missing.
C7_Witness ==
    /\ call.op = "get_filesize"
    /\ call.scenario = "missing"
    /\ call.res = "CURLE_REMOTE_FILE_NOT_FOUND"
    /\ call.ret = FTP_ERROR_TRANSFER

\* C8: ftp_client_get_filesize stores into *size only when it returns FTP_OK,
\* and then a value that is not negative; on every other return *size is
\* what it was before the call.
C8_SizeWrittenOnlyOnSuccess ==
    (call.op = "get_filesize" /\ call.returned)
        => /\ call.ret = FTP_OK => call.sizeAfter >= 0
           /\ call.ret # FTP_OK => call.sizeAfter = call.sizeBefore

\* A get_filesize has stored the size of a file.
C8_Witness ==
    /\ call.op = "get_filesize"
    /\ call.ret = FTP_OK
    /\ call.sizeBefore = OldSize
    /\ call.sizeAfter = 1048576

\* C9: an operation that returns a failure has stored a message of its own
\* in last_error, so that ftp_client_get_error gives the message of this
\* failure.
C9_FailureWritesLastError ==
    (/\ call.op \in Operations
     /\ ~call.clientNull
     /\ call.returned
     /\ call.ret # FTP_OK)
        => call.wroteError

IsTransfer(c) == c.op \in {"upload", "download"} /\ c.returned /\ c.performs = 1

\* C10 as stated: an upload or download whose progress callback returns
\* non-zero does not return FTP_OK, and returns a code that the failures of
\* an ordinary transfer do not return.
C10_AbortHasItsOwnCode ==
    (IsTransfer(call) /\ config.progress_callback = CB_ABORT)
        => /\ call.ret # FTP_OK
           /\ call.ret # FTP_ERROR_TRANSFER

\* C10 amended: an upload or download whose progress callback returns
\* non-zero does not return FTP_OK; when the engine reports the abort the call
\* returns FTP_ERROR_TRANSFER, the code of the other transfer failures.
C10_AbortFailsAsTransfer ==
    (IsTransfer(call) /\ config.progress_callback = CB_ABORT)
        => /\ call.ret # FTP_OK
           /\ call.res = "CURLE_ABORTED_BY_CALLBACK" => call.ret = FTP_ERROR_TRANSFER

\* An upload has been aborted by its progress callback.
C10_Witness ==
    /\ call.op = "upload"
    /\ config.progress_callback = CB_ABORT
    /\ call.res = "CURLE_ABORTED_BY_CALLBACK"
    /\ call.ret = FTP_ERROR_TRANSFER

C13_ZeroTimeoutMeansNone ==
    /\ (call.op = "set_timeout" /\ ~call.clientNull /\ call.ints[1] = 0)
            => config.timeout = 0
    /\ (call.op = "set_timeout" /\ ~call.clientNull /\ call.ints[2] = 0)
            => config.connect_timeout \in {0, ftp_client_init_config.connect_timeout}
    /\ (call.op \in Operations /\ call.performs = 1)
            => /\ curl.timeout = config.timeout
               /\ curl.connecttimeout = config.connect_timeout

\* The remote path as the server is to see it: absolute.
Absolute(path) == IF path[1] = "/" THEN Chars(path) ELSE <<"/">> \o Chars(path)

RNFR(path) == Str(<<"R", "N", "F", "R", " ">> \o Absolute(path))
RNTO(path) == Str(<<"R", "N", "T", "O", " ">> \o Absolute(path))

\* C14: a rename that reaches the engine sends nothing but "RNFR <old>" and
\* then "RNTO <new>", stopping after RNFR when the server refuses it, and
\* returns FTP_OK only when both have been sent and accepted.
C14_RenameSendsThePair ==
    (call.op = "rename" /\ call.returned /\ call.performs = 1)
        => LET pair == <<RNFR(call.ptrs[1]), RNTO(call.ptrs[2])>> IN
           /\ call.sent \in {<<>>, SubSeq(pair, 1, 1), pair}
           /\ call.ret = FTP_OK => (call.sent = pair /\ call.res = "CURLE_OK")

\* "ftp://host:port" followed by the absolute form of path.
AbsoluteUrl(cfg, path) ==
    Str(FtpScheme \o Chars(ReadThrough(cfg.host)) \o <<":">> \o FmtD(cfg.port)
        \o Absolute(path))

\* The path of a directory as it stands in a URL: with a "/" at its end.
AsDirectory(path) ==
    IF strlen(path) > 0 /\ path[strlen(path)] # "/"
    THEN Str(Chars(path) \o <<"/">>) ELSE path

Verb(op) ==
    CASE op = "mkdir" -> <<"M", "K", "D", " ">>
      [] op = "rmdir" -> <<"R", "M", "D", " ">>
      [] op = "delete" -> <<"D", "E", "L", "E", " ">>

\* C15: the URL of an upload, a download, a listing or a size query and the
\* command lines of mkdir, rmdir, delete and rename hold the caller's path
\* with one "/" put in front when it has none and as it is when it has one,
\* and the path so normalised gives the same URL again.
C15_PathsSentAbsolute ==
    (call.returned /\ call.performs = 1) =>
        /\ call.op = "upload" => curl.url = AbsoluteUrl(config, call.ptrs[2])
        /\ call.op \in {"download", "get_filesize"}
                => /\ curl.url = AbsoluteUrl(config, call.ptrs[1])
                   /\ curl.url = build_ftp_url([config EXCEPT !.host = ReadThrough(@)],
                                               Str(Absolute(call.ptrs[1])),
                                               FTP_MAX_URL_LENGTH).url
        /\ (call.op = "list_dir" /\ call.ptrs[1] # NULL)
                => curl.url = AbsoluteUrl(config, AsDirectory(call.ptrs[1]))
        /\ (call.op \in {"mkdir", "rmdir", "delete"})
                => call.quote = <<Str(Verb(call.op) \o Absolute(call.ptrs[1]))>>
        /\ call.op = "rename"
                => \A i \in DOMAIN call.quote :
                      call.quote[i] \in {RNFR(call.ptrs[1]), RNTO(call.ptrs[2])}

\* The path a call puts into its URL.
UrlPathOf(c) ==
    CASE c.op = "upload" -> c.ptrs[2]
      [] c.op = "list_dir" -> AsDirectory(c.ptrs[1])
      [] OTHER -> c.ptrs[1]

\* C16: a call whose complete URL "ftp://host:port/path" does not fit the
\* buffer with its terminator returns FTP_ERROR_INVALID_PARAM and does not
\* invoke the engine; whenever build_ftp_url returns FTP_OK, and whenever the
\* engine is invoked, the URL is the complete one and fits the buffer.
C16_OversizeUrlRejected ==
    (call.op \in {"build_ftp_url", "upload", "download", "list_dir", "get_filesize"}
        /\ call.returned)
        => LET full == AbsoluteUrl(config, UrlPathOf(call)) IN
           /\ Len(full) > FTP_MAX_URL_LENGTH
                => /\ call.ret = FTP_ERROR_INVALID_PARAM
                   /\ call.performs = 0
           /\ (call.op = "build_ftp_url" /\ call.ret = FTP_OK)
                => /\ call.outAfter = full
                   /\ Len(call.outAfter) <= FTP_MAX_URL_LENGTH
           /\ call.performs = 1
                => /\ curl.url = full
                   /\ Len(curl.url) <= FTP_MAX_URL_LENGTH
           /\ config.port \in 1..65535

\* An upload has handed the engine a URL that fills the buffer to its last byte.
C16_Witness ==
    /\ call.op = "upload"
    /\ call.performs = 1
    /\ Len(curl.url) = FTP_MAX_URL_LENGTH

\* The configuration of a client that has just been created.
FreshConfig ==
    [host |-> NULL, port |-> 21,
     username |-> Str(<<"a", "n", "o", "n", "y", "m", "o", "u", "s">>),
     password |-> Str(<<"u", "s", "e", "r", "@", "e", "x", "a", "m", "p", "l", "e",
                        ".", "c", "o", "m">>),
     mode |-> FTP_MODE_PASSIVE, ssl_mode |-> FTP_SSL_NONE, verify_ssl |-> 1,
     timeout |-> 60, connect_timeout |-> 30, verbose |-> 0,
     progress_callback |-> CB_NONE, progress_user_data |-> UD_NULL]

\* The call c is the setter of the configuration field f, on a client, with
\* a value for f that the setter accepts.
SetsField(c, f) ==
    /\ ~c.clientNull
    /\ CASE f = "host" -> c.op = "set_host" /\ c.ptrs[1] # NULL
         [] f = "port" -> c.op = "set_host" /\ c.ptrs[1] # NULL /\ c.ints[1] \in 1..65535
         [] f \in {"username", "password"} ->
                c.op = "set_credentials" /\ c.ptrs[1] # NULL /\ c.ptrs[2] # NULL
         [] f = "mode" -> c.op = "set_mode"
         [] f \in {"ssl_mode", "verify_ssl"} -> c.op = "set_ssl"
         [] f = "timeout" -> c.op = "set_timeout" /\ c.ints[1] > 0
         [] f = "connect_timeout" -> c.op = "set_timeout" /\ c.ints[2] > 0
         [] f = "verbose" -> c.op = "set_verbose"
         [] OTHER -> c.op = "set_progress_callback"

C18_ConnectWithoutHost ==
    [][(/\ call'.op = "connect"
        /\ ~call'.clientNull
        /\ (config.host = NULL \/ config.host = Str(<<>>)))
       => /\ call'.returned
          /\ call'.ret = FTP_ERROR_INVALID_PARAM
          /\ last_error' = Msg0("Host not set")
          /\ call'.performs = 0
          /\ curl' = curl
          /\ config' = config]_vars

\* ftp_client_connect has refused a client without a host whose handle an
\* earlier operation had set up.
C18_Witness ==
    /\ call.op = "connect"
    /\ ~call.clientNull
    /\ config.host = NULL
    /\ call.ret = FTP_ERROR_INVALID_PARAM
    /\ last_error = Msg0("Host not set")
    /\ curl # curl_easy_reset

\* ftp_client_connect has refused a client whose host is the empty string.
C18_WitnessEmpty ==
    /\ call.op = "connect"
    /\ ~call.clientNull
    /\ config.host = Str(<<>>)
    /\ call.ret = FTP_ERROR_INVALID_PARAM
    /\ call.performs = 0

\* What write_memory_callback makes of the bytes of a data connection: the
\* listings a server may send, NULL when it sends none.
DataBytes == {Deliver(EmptyBuffer, l, TRUE).mem.data : l \in Listings}

\* C19: ftp_client_execute_command hands the server its command line, as it
\* is and alone; when it returns FTP_OK to a caller that gave a response
\* pointer, *response is the server's reply to the command: a string, and
\* not the bytes of a data connection.
C19_ResponseIsTheReply ==
    (/\ call.op = "execute_command"
     /\ call.returned
     /\ call.performs = 1
     /\ call.ret = FTP_OK)
    => /\ call.sent = <<call.ptrs[1]>>
       /\ call.ptrs[2] # NULL =>
            /\ call.outAfter # NULL
            /\ call.outAfter \notin DataBytes

\* C20: ftp_client_mkdir, ftp_client_rmdir, ftp_client_delete and
\* ftp_client_rename work on the control connection alone: whatever they
\* send after the login is their own command line or lines, and none of
\* LIST, RETR and STOR, which open a data connection.
C20_ControlConnectionOnly ==
    (/\ call.op \in {"mkdir", "rmdir", "delete", "rename"}
     /\ call.performs = 1)
    => /\ \A i \in 1..Len(call.sent) : call.sent[i] \notin DataCommands
       /\ Len(call.sent) <= Len(call.quote)
       /\ \A i \in 1..Len(call.sent) : call.sent[i] = call.quote[i]

\* The string s holds a carriage return or a line feed.
HasLineEnd(s) == \E i \in 1..Len(s) : s[i] \in {"\r", "\n"}

\* C21: a path given to mkdir, rmdir, delete or rename, or a line given to
\* execute_command, that holds CR or LF is rejected: the call fails without
\* performing, and no line the client sends holds CR or LF.
C21_NoLineEndInCommand ==
    call.op \in {"mkdir", "rmdir", "delete", "rename", "execute_command"}
    => /\ \A i \in 1..Len(call.sent) : ~HasLineEnd(call.sent[i])
       /\ (\E i \in 1..Len(call.ptrs) : HasLineEnd(call.ptrs[i]))
            => call.performs = 0 /\ call.ret # FTP_OK

\* The TLS options of the handle are the ones curl_easy_reset leaves.
NoTlsOption(h) ==
    /\ h.use_ssl = curl_easy_reset.use_ssl
    /\ h.ssl_verifypeer = curl_easy_reset.ssl_verifypeer
    /\ h.ssl_verifyhost = curl_easy_reset.ssl_verifyhost

\* What a call that performed against a server refusing AUTH TLS went
\* through: under Control and All it failed before anything was sent (on the
\* refusal, or earlier on the progress callback), with the code failureCode;
\* under Try it was not failed by TLS.
RejectedTlsOutcome(failureCode) ==
    (call.performs = 1 /\ call.scenario = "tls_rejected")
    => /\ config.ssl_mode \in {FTP_SSL_CONTROL, FTP_SSL_ALL}
            => /\ call.res \in {"CURLE_USE_SSL_FAILED", "CURLE_ABORTED_BY_CALLBACK"}
               /\ call.sent = <<>>
               /\ call.ret = failureCode
       /\ config.ssl_mode = FTP_SSL_TRY => call.res # "CURLE_USE_SSL_FAILED"

C22_WitnessTry ==
    /\ call.op = "connect"
    /\ call.scenario = "tls_rejected"
    /\ config.ssl_mode = FTP_SSL_TRY
    /\ call.ret = FTP_OK

\* An operation has performed under the policy None with verification
\* switched off in the configuration.
C22_WitnessNone ==
    /\ call.performs = 1
    /\ config.ssl_mode = FTP_SSL_NONE
    /\ config.verify_ssl = 0
    /\ NoTlsOption(curl)

\* The checks of its parameters and of its URL that the call c passes or
\* fails: a client and every required pointer, a host for
\* ftp_client_connect, a local file that opens, a command list that was
\* allocated, and a URL that fits its buffer.
PassesValidation(c) ==
    /\ ~HasNullArgument(c)
    /\ c.op = "connect" => ~HostNotSet(config)
    /\ c.op = "upload" => c.ptrs[1] \in localFiles
    /\ c.op = "download" => Creatable(c.ptrs[2])
    /\ c.op \in {"mkdir", "rmdir", "delete", "rename"} => c.quote # <<>>
    /\ LET path == IF c.op \in {"upload", "download", "list_dir", "get_filesize"}
                   THEN UrlPathOf(c) ELSE Str(<<"/">>)
       IN  build_ftp_url([config EXCEPT !.host = ReadThrough(@)], path,
                         FTP_MAX_URL_LENGTH).rc = FTP_OK

\* C23: a call of an operation invokes the engine once when the checks of
\* its parameters and of its URL pass and not at all otherwise, and hands
\* a failure of that one attempt back to the caller.
C23_EngineInvokedOnce ==
    call.op \in Operations
    => /\ call.performs \in {0, 1}
       /\ call.performs = 1 <=> PassesValidation(call)
       /\ (call.performs = 1 /\ call.res # "CURLE_OK") => call.ret # FTP_OK

\* C24: when an operation returns, the local file it opened is closed; the
\* receive buffer, when one was allocated, has been freed or handed to the
\* caller through *output or *response, never both, and is handed over only
\* with FTP_OK; and every node of the command list it built is freed.
C24_ResourcesReleasedOnce ==
    (call.op \in Operations /\ call.returned)
    => /\ call.fclosed = call.fopened
       /\ call.bfreed + call.bhanded = (IF call.balloc THEN 1 ELSE 0)
       /\ call.bhanded = 1 => call.ret = FTP_OK /\ call.outAfter # NULL
       /\ call.nodesFreed = call.nodes

\* The bytes of the chunks, one after the other.
RECURSIVE Concat(_)
Concat(chunks) == IF chunks = <<>> THEN <<>> ELSE Head(chunks) \o Concat(Tail(chunks))

\* C25: when ftp_client_list_dir returns FTP_OK, *output is a string, not
\* NULL, that holds the bytes received in their order and ends there, also
\* when no byte was received; when it returns another code *output is what
\* it was.
C25_ListingReturned ==
    (call.op = "list_dir" /\ call.returned)
    => IF call.ret = FTP_OK
       THEN /\ call.outAfter # NULL
            /\ call.outAfter = Str(Concat(call.received))
       ELSE call.outAfter = call.outBefore

\* C26: an operation other than ftp_client_connect, called on a client
\* whose host was never set, returns an error code, has read through no NULL
\* pointer and has not invoked the engine.
C26_NoHostNoRead ==
    (call.op \in Operations \ {"connect"} /\ ~call.clientNull /\ config.host = NULL)
    => /\ call.returned
       /\ call.ret # FTP_OK
       /\ ~call.deref
       /\ call.performs = 0

\* The command line ends with all the characters of the path.
EndsWithPath(line, path) ==
    LET l == Chars(line)  p == Chars(path) IN
    /\ Len(p) <= Len(l)
    /\ SubSeq(l, Len(l) - Len(p) + 1, Len(l)) = p

\* C27: every command line that mkdir, rmdir, delete and rename hand to the
\* engine holds the whole of the caller's path; a path that does not fit the
\* 512-byte command buffer makes the call fail without performing.
C27_NoTruncatedPath ==
    (call.op \in {"mkdir", "rmdir", "delete", "rename"} /\ call.performs = 1)
    => \A i \in 1..Len(call.quote) :
         \E j \in 1..Len(call.ptrs) : EndsWithPath(call.quote[i], call.ptrs[j])

\* The options of the handle h that only the operation op sets are set as
\* op sets them, and those that op never sets are libcurl's defaults.
OwnOptionsOnly(h, c) ==
    /\ h.upload = (IF c.op = "upload" THEN 1 ELSE 0)
    /\ h.readdata = (IF c.op = "upload" THEN c.ptrs[1] ELSE NULL)
    /\ h.nobody = (IF c.op = "get_filesize" THEN 1 ELSE 0)
    /\ h.header = (IF c.op = "get_filesize" THEN 1 ELSE 0)
    /\ h.filetime = (IF c.op = "get_filesize" THEN 1 ELSE 0)
    /\ h.quote = (IF c.op \in {"mkdir", "rmdir", "delete", "rename", "execute_command"}
                  THEN c.quote ELSE <<>>)
    /\ h.writedata = (IF c.op = "upload" THEN curl_easy_reset.writedata
                      ELSE IF c.op = "download" THEN c.ptrs[2] ELSE "buffer")

\* The options of the handle h that come from the configuration are the ones
\* cfg asks for, and libcurl's defaults where cfg asks for nothing.
ConfiguredOptionsOnly(h, cfg) ==
    /\ h.username = cfg.username /\ h.password = cfg.password
    /\ h.timeout = cfg.timeout /\ h.connecttimeout = cfg.connect_timeout
    /\ h.verbose = cfg.verbose
    /\ h.ftpport = (IF cfg.mode = FTP_MODE_ACTIVE THEN Str(<<"-">>) ELSE NULL)
    /\ h.use_epsv = 1
    /\ IF cfg.ssl_mode = FTP_SSL_NONE THEN NoTlsOption(h)
       ELSE /\ h.use_ssl = cfg.ssl_mode
            /\ h.ssl_verifypeer = cfg.verify_ssl
            /\ h.ssl_verifyhost = 2 * cfg.verify_ssl
    /\ h.xferinfofunction = (cfg.progress_callback # CB_NONE)
    /\ h.noprogress = (IF cfg.progress_callback # CB_NONE THEN 0 ELSE 1)

RECURSIVE BufferSizeTimesPowerOfTwo(_)
BufferSizeTimesPowerOfTwo(n) ==
    \/ n = FTP_BUFFER_SIZE
    \/ n > FTP_BUFFER_SIZE /\ n % 2 = 0 /\ BufferSizeTimesPowerOfTwo(n \div 2)

\* The buffer after a call holds what it held before, then the new bytes,
\* then the terminator, within a capacity the doubling gives.
Extended(before, contents, mem) ==
    /\ mem.size = before.size + Len(contents)
    /\ mem.data # NULL
    /\ \A i \in 1..before.size : mem.data[i] = before.data[i]
    /\ SubSeq(mem.data, before.size + 1, mem.size) = contents
    /\ mem.size + 1 <= mem.capacity
    /\ mem.data[mem.size + 1] = NUL
    /\ BufferSizeTimesPowerOfTwo(mem.capacity)

\* The call needed more memory and realloc returned none.
ReallocFailed(c) ==
    c.before.size + Len(c.contents) + 1 > c.before.capacity /\ ~c.reallocOk

\* C29 as stated: after a call of write_memory_callback that returns
\* size*nmemb the buffer is the old one extended by the new bytes and is
\* well-formed; a call whose reallocation fails returns 0 and leaves the
\* buffer as it was.
C29_BufferWellFormed ==
    call.op = "write_memory_callback"
    => /\ call.ret = Len(call.contents)
            => Extended(call.before, call.contents, call.mem)
       /\ ReallocFailed(call) => call.ret = 0 /\ call.mem = call.before

\* C29 amended: a call of write_memory_callback whose reallocation, if it
\* needs one, succeeds returns size*nmemb and leaves the old buffer extended
\* by the new bytes and well-formed; a call whose reallocation fails returns
\* 0, also for an empty chunk, and leaves the buffer as it was, which after
\* failures alone is still the zeroed buffer.
C29_BufferWellFormedUnlessFailed ==
    call.op = "write_memory_callback"
    => IF ReallocFailed(call)
       THEN call.ret = 0 /\ call.mem = call.before
       ELSE /\ call.ret = Len(call.contents)
            /\ Extended(call.before, call.contents, call.mem)

\* A call on a buffer that holds bytes has doubled the capacity twice.
C29_Witness ==
    /\ call.op = "write_memory_callback"
    /\ call.before.size > 0
    /\ call.mem.capacity = 4 * call.before.capacity
    /\ call.ret = 2 * FTP_BUFFER_SIZE

\* A call on a buffer that holds bytes has failed to get memory.
C29_WitnessFailed ==
    /\ call.op = "write_memory_callback"
    /\ call.before.size > 0
    /\ ReallocFailed(call)
    /\ call.mem = call.before

====
